---- MODULE Spec2Model ----
(***************************************************************************)
(* Model of aiSearchDupes.py: snippet extraction, concurrent fingerprint   *)
(* collection, the single batch LLM request, and the verdict parser and    *)
(* resolver that deletes files.  Python strings are sequences of           *)
(* one-character strings, so that split / strip / basename are computed.   *)
(***************************************************************************)
EXTENDS Integers, Sequences, FiniteSets, TLC

\* ---------------------------------------------------------------- bounds
MaxFiles == 2
MaxLines == 2
MaxTextLen == 4
MaxN == 2

\* ------------------------------------------------- Python value helpers
\* Python None for an optional int argument: None is <<>>, the int n is <<n>>.
None == <<>>

Min(a, b) == IF a < b THEN a ELSE b
Max(a, b) == IF a > b THEN a ELSE b

\* The slice taken one element too long.
PySlice_OffByOne(seq, n) ==
  IF n >= 0 THEN SubSeq(seq, 1, Min(n + 1, Len(seq)))
  ELSE SubSeq(seq, 1, Max(Len(seq) + n, 0))

\* seq[:n] of Python: a negative n counts from the end.
PySlice(seq, n) ==
  IF n >= 0 THEN SubSeq(seq, 1, Min(n, Len(seq)))
  ELSE SubSeq(seq, 1, Max(Len(seq) + n, 0))

\* seq[:n] where n may be None (the whole sequence).
PySliceOpt(seq, n) == IF n = None THEN seq ELSE PySlice(seq, n[1])

RECURSIVE str_join(_, _)
\* sep.join(parts)
str_join(sep, parts) ==
  IF parts = <<>> THEN <<>>
  ELSE IF Len(parts) = 1 THEN parts[1]
  ELSE parts[1] \o sep \o str_join(sep, Tail(parts))

\* s[i:i+len(sub)] == sub, for a non-empty sub
MatchAt(s, sub, i) ==
  /\ i >= 1
  /\ i + Len(sub) - 1 <= Len(s)
  /\ s[i] = sub[1]
  /\ SubSeq(s, i, i + Len(sub) - 1) = sub

\* s.find(sub) + 1: the 1-based index of the first occurrence of sub in s, 0
\* when there is none.
str_find(s, sub) ==
  LET hits == {i \in 1..(Len(s) - Len(sub) + 1) : MatchAt(s, sub, i)}
  IN IF hits = {} THEN 0 ELSE CHOOSE i \in hits : \A j \in hits : i <= j

\* sub in s
str_contains(s, sub) == str_find(s, sub) # 0

RECURSIVE str_split(_, _)
\* s.split(sep) for a non-empty sep
str_split(s, sep) ==
  LET i == str_find(s, sep)
  IN IF i = 0 THEN <<s>>
     ELSE <<SubSeq(s, 1, i - 1)>> \o str_split(SubSeq(s, i + Len(sep), Len(s)), sep)

RECURSIVE str_rstrip(_, _)
\* s.rstrip(chars)
str_rstrip(s, chars) ==
  IF s # <<>> /\ s[Len(s)] \in chars THEN str_rstrip(SubSeq(s, 1, Len(s) - 1), chars) ELSE s

RECURSIVE str_lstrip(_, _)
str_lstrip(s, chars) ==
  IF s # <<>> /\ s[1] \in chars THEN str_lstrip(Tail(s), chars) ELSE s

\* Characters matched by \s in a str pattern and removed by str.strip(): the
\* characters c with c.isspace(), listed up to code point 255 (the strings of
\* this module are written in that range). In code point order: 9 (tab),
\* 10 (line feed), 11 (vertical tab), 12 (form feed), 13 (carriage return),
\* 28 to 31 (the separators FS, GS, RS, US), 32 (space), 133 (next line) and
\* 160 (no-break space).
Whitespace ==
  {"\t", "\n", "", "\f", "\r", "", "", "", "", " ", "", " "}

\* s.strip()
str_strip(s) == str_lstrip(str_rstrip(s, Whitespace), Whitespace)

\* s.endswith(suffix)
str_endswith(s, suffix) ==
  Len(s) >= Len(suffix) /\ SubSeq(s, Len(s) - Len(suffix) + 1, Len(s)) = suffix

\* os.path.basename(path): what follows the last "/"
os_path_basename(path) ==
  LET slashes == {i \in 1..Len(path) : path[i] = "/"}
      last == IF slashes = {} THEN 0 ELSE CHOOSE i \in slashes : \A j \in slashes : j <= i
  IN SubSeq(path, last + 1, Len(path))

\* ------------------------------------------------------ get_text_snippet
\* Characters matched by \w in a str pattern: the alphanumeric characters of
\* Unicode and the underscore, listed up to code point 255: the ASCII digits
\* and letters, "_", and the Latin-1 letters and numerics (170, 178, 179, 181,
\* 185, 186, 188 to 190, 192 to 214, 216 to 246, 248 to 255).
WordChars ==
  {"0","1","2","3","4","5","6","7","8","9","A","B","C","D","E","F","G","H","I","J",
   "K","L","M","N","O","P","Q","R","S","T","U","V","W","X","Y","Z","_","a","b","c",
   "d","e","f","g","h","i","j","k","l","m","n","o","p","q","r","s","t","u","v","w",
   "x","y","z","ª","²","³","µ","¹","º","¼","½","¾","À","Á","Â","Ã","Ä","Å","Æ","Ç",
   "È","É","Ê","Ë","Ì","Í","Î","Ï","Ð","Ñ","Ò","Ó","Ô","Õ","Ö","Ø","Ù","Ú","Û","Ü",
   "Ý","Þ","ß","à","á","â","ã","ä","å","æ","ç","è","é","ê","ë","ì","í","î","ï","ð",
   "ñ","ò","ó","ô","õ","ö","ø","ù","ú","û","ü","ý","þ","ÿ"}

\* the character class [.!?]
Terminal == {".", "!", "?"}

\* length of the longest prefix of s made of characters of cls
RunLength(s, cls) ==
  LET stops == {i \in 1..Len(s) : s[i] \notin cls}
  IN IF stops = {} THEN Len(s) ELSE (CHOOSE i \in stops : \A j \in stops : i <= j) - 1

RECURSIVE re_findall_words(_)
\* re.findall(r'\w+', text)
re_findall_words(text) ==
  IF text = <<>> THEN <<>>
  ELSE IF text[1] \notin WordChars THEN re_findall_words(Tail(text))
  ELSE LET k == RunLength(text, WordChars)
       IN <<SubSeq(text, 1, k)>> \o re_findall_words(SubSeq(text, k + 1, Len(text)))

RECURSIVE re_split_sentences(_)
\* re.split(r'(?<=[.!?])\s+', text)
re_split_sentences(text) ==
  LET cuts == {i \in 2..Len(text) : text[i - 1] \in Terminal /\ text[i] \in Whitespace}
  IN IF cuts = {} THEN <<text>>
     ELSE LET i == CHOOSE c \in cuts : \A d \in cuts : c <= d
              rest == SubSeq(text, i, Len(text))
              k == RunLength(rest, Whitespace)
          IN <<SubSeq(text, 1, i - 1)>> \o re_split_sentences(SubSeq(rest, k + 1, Len(rest)))

get_text_snippet(text, num_sentences, num_words) ==
  IF num_words # None
  THEN str_join(<<" ">>, PySlice(re_findall_words(text), num_words[1]))
  ELSE str_join(<<" ">>, PySliceOpt(re_split_sentences(str_strip(text)), num_sentences))

\* ------------------------------------------------------- program inputs
\* Literals of the source, as character sequences.
FileQuote == <<"F","i","l","e"," ","'">>
AndSep == <<" ","a","n","d"," ">>
AreDuplicates == <<"a","r","e"," ","d","u","p","l","i","c","a","t","e","s">>
PdfExt == <<".","p","d","f">>
Quote == <<"'">>
Space == <<" ">>
Newline == <<"\n">>

\* Basenames and paths of the files of the scanned directory.
NameA == <<"A">> \o PdfExt
NameB == <<"B">> \o PdfExt
NameBC == NameB \o Space \o <<"C">> \o PdfExt
NameN == <<"N",".","t","x","t">>
Dir == <<"d","/">>
AllFiles == <<Dir \o NameA, Dir \o NameB, Dir \o NameBC, Dir \o NameN>>

\* What the text extraction capability yields for a document: a failure, or
\* the text of the first page.
Corrupt == [ok |-> FALSE, text |-> <<>>]
PageText(t) == [ok |-> TRUE, text |-> t]
Contents == {Corrupt, PageText(<<>>), PageText(<<"a","."," ","b">>)}

\* Lines an LLM verdict may contain.
PairLine(n1, n2) ==
  FileQuote \o n1 \o Quote \o AndSep \o FileQuote \o n2 \o Quote \o Space \o AreDuplicates \o <<".">>
UnquotedLine(n1, n2) ==
  <<"F","i","l","e"," ">> \o n1 \o AndSep \o <<"F","i","l","e"," ">> \o n2 \o Space
    \o AreDuplicates \o <<".">>
CandidateLines ==
  { PairLine(NameA, NameB), PairLine(NameB, NameA), PairLine(NameA, NameBC),
    UnquotedLine(NameA, NameB) }

RECURSIVE SeqsUpTo(_, _)
\* all sequences over S of length at most n
SeqsUpTo(S, n) ==
  IF n = 0 THEN {<<>>}
  ELSE LET shorter == SeqsUpTo(S, n - 1)
       IN shorter \cup {Append(q, x) : q \in {r \in shorter : Len(r) = n - 1}, x \in S}

\* Raw completions of the LLM: some lines joined by newlines, possibly with a
\* trailing newline.
RawVerdicts ==
  {str_join(Newline, ls) \o tl : ls \in SeqsUpTo(CandidateLines, MaxLines), tl \in {<<>>, Newline}}

SeqRange(q) == {q[i] : i \in 1..Len(q)}

\* Line 77: what check_duplicates_using_ai can return, the stripped completion.
Reports == {str_strip(raw) : raw \in RawVerdicts}

\* Line 132: duplicate_report.split('\n'), computed once for every report.
SplitTable == {<<r, str_split(r, Newline)>> : r \in Reports}
SplitLines(report) ==
  IF \E e \in SplitTable : e[1] = report
  THEN (CHOOSE e \in SplitTable : e[1] = report)[2]
  ELSE str_split(report, Newline)

\* Line 141: os.path.basename, computed once for every path of the directory.
BasenameTable == {<<p, os_path_basename(p)>> : p \in SeqRange(AllFiles)}
Basename(path) ==
  IF \E e \in BasenameTable : e[1] = path
  THEN (CHOOSE e \in BasenameTable : e[1] = path)[2]
  ELSE os_path_basename(path)

\* ------------------------------------------------------------ the state
VARIABLES
  pdf_files,        \* glob.glob(file_pattern)
  docs,             \* path -> what extraction of its first page yields
  num_sentences, num_words, delete_dupes,   \* arguments
  fs,               \* paths that exist in the filesystem
  futures,          \* submitted tasks, in submission order: their file_path
  task_state,       \* per task: "queued", "running", "failed" (raised and logged) or "done"
  task_result,      \* per finished task: the returned list of snippets
  pdf_snippets,     \* insertion-ordered dict: sequence of <<path, snippet>>
  pc, idx,          \* position of the main thread and its loop index
  requests,         \* chat completion requests issued so far
  duplicate_report, \* stripped completion
  lines,            \* duplicate_report.split('\n')
  log,              \* logging records emitted
  removed,          \* successful os.remove calls: [line, path]
  text_in, snippet_out   \* argument and result of a direct get_text_snippet call

vars == <<pdf_files, docs, num_sentences, num_words, delete_dupes, fs, futures,
          task_state, task_result, pdf_snippets, pc, idx, requests,
          duplicate_report, lines, log, removed, text_in, snippet_out>>

LogRec(level, msg, subject, line) ==
  [level |-> level, msg |-> msg, subject |-> subject, line |-> line]

\* ------------------------------------------------------ dict operations
dict_keys(d) == [i \in 1..Len(d) |-> d[i][1]]
dict_has(d, k) == \E i \in 1..Len(d) : d[i][1] = k
\* d[k] = v
dict_set(d, k, v) ==
  IF dict_has(d, k)
  THEN [i \in 1..Len(d) |-> IF d[i][1] = k THEN <<k, v>> ELSE d[i]]
  ELSE Append(d, <<k, v>>)

\* ------------------------------------------------------------ extraction
\* The list receives an (empty) snippet also when the document cannot be read.
extract_with_pymupdf_AppendOnError(file_path, n_sentences, n_words) ==
  IF docs[file_path].ok
  THEN <<get_text_snippet(docs[file_path].text, n_sentences, n_words)>>
  ELSE <<get_text_snippet(<<>>, n_sentences, n_words)>>

\* extract_with_pymupdf: a list with the snippet of the first page, or the
\* empty list when opening or reading the document raised.
extract_with_pymupdf(file_path, n_sentences, n_words) ==
  IF docs[file_path].ok
  THEN <<get_text_snippet(docs[file_path].text, n_sentences, n_words)>>
  ELSE <<>>

extract_and_store_snippet(file_path, n_sentences, n_words) ==
  extract_with_pymupdf(file_path, n_sentences, n_words)

\* -------------------------------------------------------- verdict parser
\* Lines 137-139: the two basenames taken from a line, or the exception
\* (IndexError) raised by an index past the end of a split.
ParseLine(line) ==
  LET parts == str_split(line, AndSep)
      seg1 == str_split(parts[1], FileQuote)
      seg2 == str_split(parts[2], FileQuote)
  IN IF Len(seg1) < 2 \/ Len(parts) < 2 \/ Len(seg2) < 2
     THEN [ok |-> FALSE, file1 |-> <<>>, file2 |-> <<>>]
     ELSE [ok |-> TRUE,
           file1 |-> str_rstrip(seg1[2], {"'"}),
           file2 |-> str_rstrip(str_split(seg2[2], Space)[1], {"'"})]

\* 'are duplicates' in line
IsCandidate(line) == str_contains(line, AreDuplicates)

\* Lines 134-139 computed once for every line a report can hold: the line,
\* whether it carries the marker, and what the parser makes of it.
LineTable ==
  {<<l, IsCandidate(l), ParseLine(l)>> : l \in UNION {SeqRange(e[2]) : e \in SplitTable}}
LineEntry(line) ==
  IF \E e \in LineTable : e[1] = line
  THEN CHOOSE e \in LineTable : e[1] = line
  ELSE <<line, IsCandidate(line), ParseLine(line)>>
\* IsCandidate(line) and ParseLine(line), looked up
HasMarker(line) == LineEntry(line)[2]
Parsed(line) == LineEntry(line)[3]

\* next((path for path in pdf_snippets.keys() if basename(path) == name), None)
ResolveName(name) ==
  LET ks == dict_keys(pdf_snippets)
      hits == {i \in 1..Len(ks) : Basename(ks[i]) = name}
  IN IF hits = {} THEN None ELSE ks[CHOOSE i \in hits : \A j \in hits : i <= j]

\* os.path.exists(path)
os_path_exists(path) == path \in fs

\* if file2_path and os.path.exists(file2_path)
ShouldDelete(file1_path, file2_path) == file2_path # None /\ os_path_exists(file2_path)

\* The flag ignored.
DeletionEnabled_Always == TRUE

\* if delete_dupes (line 130)
DeletionEnabled == delete_dupes

\* The emptiness test left out.
HasSnippets_Always == TRUE

\* if pdf_snippets (line 125)
HasSnippets == pdf_snippets # <<>>

\* if snippet (line 117): the returned list is not empty
HasResult(snippet) == snippet # <<>>

\* ------------------------------------------------------------------ Init
\* The orders in which glob.glob may list the paths of S: glob returns the
\* directory entries in the order of os.scandir, which is unspecified.
Orderings(S) ==
  {q \in [1..Cardinality(S) -> S] : \A i, j \in 1..Cardinality(S) : q[i] = q[j] => i = j}

\* The length policies the command line can yield (lines 160-171): the two
\* options exclude each other and one of them is required. --num_words n
\* leaves num_sentences at its default 1; --num_sentences n leaves num_words
\* at None, and argparse takes n = 1, the default, for an absent option.
Policies == {[ns |-> <<2>>, nw |-> None], [ns |-> <<1>>, nw |-> <<1>>]}

Init ==
  /\ \E S \in SUBSET SeqRange(AllFiles) :
       /\ Cardinality(S) <= MaxFiles
       /\ pdf_files \in Orderings(S)
       /\ docs \in [{f \in S : str_endswith(f, PdfExt)} -> Contents]
  /\ \E p \in Policies : num_sentences = p.ns /\ num_words = p.nw
  /\ delete_dupes \in BOOLEAN
  /\ fs = SeqRange(AllFiles)
  /\ futures = <<>> /\ task_state = <<>> /\ task_result = <<>>
  /\ pdf_snippets = <<>>
  /\ pc = "submit" /\ idx = 1
  /\ requests = <<>>
  /\ duplicate_report = <<>> /\ lines = <<>>
  /\ log = {} /\ removed = {}
  /\ text_in = <<>> /\ snippet_out = <<>>

\* --------------------------------------------------------------- actions
\* Lines 108-111: one iteration of the comprehension that submits a task.
SubmitTask ==
  /\ pc = "submit" /\ idx <= Len(pdf_files)
  /\ str_endswith(pdf_files[idx], PdfExt)
  /\ futures' = Append(futures, pdf_files[idx])
  /\ task_state' = Append(task_state, "queued")
  /\ task_result' = Append(task_result, <<>>)
  /\ idx' = idx + 1
  /\ UNCHANGED <<pdf_files, docs, num_sentences, num_words, delete_dupes, fs,
                 pdf_snippets, pc, requests, duplicate_report, lines, log, removed,
                 text_in, snippet_out>>

\* Line 110: a path that does not end with ".pdf" is filtered out.
SkipNonPdf ==
  /\ pc = "submit" /\ idx <= Len(pdf_files)
  /\ ~str_endswith(pdf_files[idx], PdfExt)
  /\ idx' = idx + 1
  /\ UNCHANGED <<pdf_files, docs, num_sentences, num_words, delete_dupes, fs, futures,
                 task_state, task_result, pdf_snippets, pc, requests, duplicate_report,
                 lines, log, removed, text_in, snippet_out>>

\* The comprehension is exhausted; the for loop of line 113 starts.
SubmitDone ==
  /\ pc = "submit" /\ idx > Len(pdf_files)
  /\ pc' = "collect" /\ idx' = 1
  /\ UNCHANGED <<pdf_files, docs, num_sentences, num_words, delete_dupes, fs, futures,
                 task_state, task_result, pdf_snippets, requests, duplicate_report,
                 lines, log, removed, text_in, snippet_out>>

\* A pool thread takes a queued task.
WorkerStart(t) ==
  /\ t \in 1..Len(futures) /\ task_state[t] = "queued"
  /\ task_state' = [task_state EXCEPT ![t] = "running"]
  /\ UNCHANGED <<pdf_files, docs, num_sentences, num_words, delete_dupes, fs, futures,
                 task_result, pdf_snippets, pc, idx, requests, duplicate_report,
                 lines, log, removed, text_in, snippet_out>>

\* Lines 36-41: opening or reading the document raises in the pool thread;
\* the handler emits the error record. The function has not returned yet and
\* the future is still running.
WorkerLogFailure(t) ==
  /\ t \in 1..Len(futures) /\ task_state[t] = "running"
  /\ ~docs[futures[t]].ok
  /\ task_state' = [task_state EXCEPT ![t] = "failed"]
  /\ log' = log \cup {LogRec("error", "extract_failed", futures[t], 0)}
  /\ UNCHANGED <<pdf_files, docs, num_sentences, num_words, delete_dupes, fs, futures,
                 task_result, pdf_snippets, pc, idx, requests, duplicate_report, lines,
                 removed, text_in, snippet_out>>

\* Lines 42, 85: extract_and_store_snippet returns in the pool thread, after
\* the snippet was appended or after the error record was emitted; the future
\* gets its result and becomes done.
WorkerFinish(t) ==
  /\ t \in 1..Len(futures)
  /\ \/ task_state[t] = "running" /\ docs[futures[t]].ok
     \/ task_state[t] = "failed"
  /\ task_state' = [task_state EXCEPT ![t] = "done"]
  /\ task_result' = [task_result EXCEPT
                       ![t] = extract_and_store_snippet(futures[t], num_sentences, num_words)]
  /\ UNCHANGED <<pdf_files, docs, num_sentences, num_words, delete_dupes, fs, futures,
                 pdf_snippets, pc, idx, requests, duplicate_report, lines, log, removed,
                 text_in, snippet_out>>

\* Lines 113-122: one iteration of the loop over the futures; future.result()
\* blocks until the task is done.
CollectResult ==
  /\ pc = "collect" /\ idx <= Len(futures)
  /\ task_state[idx] = "done"
  /\ LET file_path == futures[idx]
         snippet == task_result[idx]
     IN IF HasResult(snippet)
        THEN /\ pdf_snippets' = dict_set(pdf_snippets, file_path, snippet[1])
             /\ log' = log
        ELSE /\ pdf_snippets' = pdf_snippets
             /\ log' = log \cup {LogRec("warning", "skipping", file_path, 0)}
  /\ idx' = idx + 1
  /\ UNCHANGED <<pdf_files, docs, num_sentences, num_words, delete_dupes, fs, futures,
                 task_state, task_result, pc, requests, duplicate_report, lines,
                 removed, text_in, snippet_out>>

\* Line 107: leaving the with block, executor.shutdown(wait=True).
ExitPool ==
  /\ pc = "collect" /\ idx > Len(futures)
  /\ \A t \in 1..Len(futures) : task_state[t] = "done"
  /\ pc' = "judge"
  /\ UNCHANGED <<pdf_files, docs, num_sentences, num_words, delete_dupes, fs, futures,
                 task_state, task_result, pdf_snippets, idx, requests, duplicate_report,
                 lines, log, removed, text_in, snippet_out>>

\* Lines 59-75: the request check_duplicates_using_ai sends.
BuildRequest(snippets) ==
  [model |-> "gpt-4o-mini",
   entries |-> [i \in 1..Len(snippets) |-> <<Basename(snippets[i][1]), snippets[i][2]>>]]

\* The block of lines 125-149 indented into the for loop of line 113: the
\* request is sent as soon as the mapping has an entry.
CheckDuplicates_InLoop ==
  /\ pc \in {"collect", "judge"} /\ pdf_snippets # <<>>
  /\ requests' = Append(requests, BuildRequest(pdf_snippets))
  /\ \E report \in Reports :
       /\ duplicate_report' = report
       /\ log' = log \cup {LogRec("info", "report", <<>>, 0)}
       /\ IF delete_dupes
          THEN lines' = SplitLines(report) /\ pc' = "resolve" /\ idx' = 1
          ELSE lines' = lines /\ pc' = "done" /\ idx' = idx
  /\ UNCHANGED <<pdf_files, docs, num_sentences, num_words, delete_dupes, fs, futures,
                 task_state, task_result, pdf_snippets, removed, text_in, snippet_out>>

\* Lines 125-132: the mapping is not empty, the LLM answers.
CheckDuplicates ==
  /\ pc = "judge" /\ HasSnippets
  /\ requests' = Append(requests, BuildRequest(pdf_snippets))
  /\ \E report \in Reports :
       /\ duplicate_report' = report
       /\ log' = log \cup {LogRec("info", "report", <<>>, 0)}
       /\ IF DeletionEnabled
          THEN lines' = SplitLines(report) /\ pc' = "resolve" /\ idx' = 1
          ELSE lines' = lines /\ pc' = "done" /\ idx' = idx
  /\ UNCHANGED <<pdf_files, docs, num_sentences, num_words, delete_dupes, fs, futures,
                 task_state, task_result, pdf_snippets, removed, text_in, snippet_out>>

\* Lines 67-75: the request fails; the exception leaves the function.
JudgeFails ==
  /\ pc = "judge" /\ HasSnippets
  /\ requests' = Append(requests, BuildRequest(pdf_snippets))
  /\ pc' = "crashed"
  /\ UNCHANGED <<pdf_files, docs, num_sentences, num_words, delete_dupes, fs, futures,
                 task_state, task_result, pdf_snippets, idx, duplicate_report, lines,
                 log, removed, text_in, snippet_out>>

\* Lines 150-151: nothing to compare.
NoSnippets ==
  /\ pc = "judge" /\ ~HasSnippets
  /\ log' = log \cup {LogRec("warning", "no_snippets", <<>>, 0)}
  /\ pc' = "done"
  /\ UNCHANGED <<pdf_files, docs, num_sentences, num_words, delete_dupes, fs, futures,
                 task_state, task_result, pdf_snippets, idx, requests, duplicate_report,
                 lines, removed, text_in, snippet_out>>

ResolveUnchanged ==
  UNCHANGED <<pdf_files, docs, num_sentences, num_words, delete_dupes, futures,
              task_state, task_result, pdf_snippets, pc, requests, duplicate_report,
              lines, text_in, snippet_out>>

\* Line 134: a line without the marker is passed over.
ResolveSkip ==
  /\ pc = "resolve" /\ idx <= Len(lines)
  /\ ~HasMarker(lines[idx])
  /\ idx' = idx + 1
  /\ UNCHANGED <<fs, log, removed>>
  /\ ResolveUnchanged

\* Lines 136-139, 148-149: extraction of the names raises, the error is logged.
ResolveParseError ==
  /\ pc = "resolve" /\ idx <= Len(lines)
  /\ HasMarker(lines[idx])
  /\ ~Parsed(lines[idx]).ok
  /\ log' = log \cup {LogRec("error", "parse_error", <<>>, idx)}
  /\ idx' = idx + 1
  /\ UNCHANGED <<fs, removed>>
  /\ ResolveUnchanged

\* Lines 141-146: the condition of line 146 is false, nothing happens.
ResolveNoTarget ==
  /\ pc = "resolve" /\ idx <= Len(lines)
  /\ HasMarker(lines[idx])
  /\ LET p == Parsed(lines[idx])
     IN /\ p.ok
        /\ ~ShouldDelete(ResolveName(p.file1), ResolveName(p.file2))
  /\ idx' = idx + 1
  /\ UNCHANGED <<fs, log, removed>>
  /\ ResolveUnchanged

\* Lines 146-147, 92-94: os.remove succeeds.
ResolveDelete ==
  /\ pc = "resolve" /\ idx <= Len(lines)
  /\ HasMarker(lines[idx])
  /\ LET p == Parsed(lines[idx])
         file2_path == ResolveName(p.file2)
     IN /\ p.ok
        /\ ShouldDelete(ResolveName(p.file1), file2_path)
        /\ file2_path \in fs
        /\ fs' = fs \ {file2_path}
        /\ removed' = removed \cup {[line |-> idx, path |-> file2_path]}
        /\ log' = log \cup {LogRec("info", "deleted", file2_path, idx)}
  /\ idx' = idx + 1
  /\ ResolveUnchanged

\* Lines 146-147, 95-96: os.remove raises OSError (no permission, or the file
\* is not there).
ResolveDeleteFails ==
  /\ pc = "resolve" /\ idx <= Len(lines)
  /\ HasMarker(lines[idx])
  /\ LET p == Parsed(lines[idx])
         file2_path == ResolveName(p.file2)
     IN /\ p.ok
        /\ ShouldDelete(ResolveName(p.file1), file2_path)
        /\ log' = log \cup {LogRec("error", "delete_error", file2_path, idx)}
  /\ idx' = idx + 1
  /\ UNCHANGED <<fs, removed>>
  /\ ResolveUnchanged

\* The loop over the lines is exhausted; the function returns.
ResolveDone ==
  /\ pc = "resolve" /\ idx > Len(lines)
  /\ pc' = "done"
  /\ UNCHANGED <<pdf_files, docs, num_sentences, num_words, delete_dupes, fs, futures,
                 task_state, task_result, pdf_snippets, idx, requests, duplicate_report,
                 lines, log, removed, text_in, snippet_out>>

Next ==
  \/ SubmitTask \/ SkipNonPdf \/ SubmitDone
  \/ \E t \in 1..MaxFiles + 1 : WorkerStart(t)
  \/ \E t \in 1..MaxFiles + 1 : WorkerLogFailure(t)
  \/ \E t \in 1..MaxFiles + 1 : WorkerFinish(t)
  \/ CollectResult \/ ExitPool
  \/ CheckDuplicates \/ JudgeFails \/ NoSnippets
  \/ ResolveSkip \/ ResolveParseError \/ ResolveNoTarget
  \/ ResolveDelete \/ ResolveDeleteFails \/ ResolveDone

Spec == Init /\ [][Next]_vars

\* ------------------------------------------- get_text_snippet, called alone
\* A letter of ASCII and one outside it, a sentence terminal, a space of ASCII
\* and one outside it (the no-break space), and a character of no class.
TextAlphabet == {"a", "é", ".", " ", " ", ","}
Texts == SeqsUpTo(TextAlphabet, MaxTextLen)
Counts == {<<n>> : n \in -1..MaxN}

\* get_text_snippet called with a text and a pair of counts: num_words None
\* and any num_sentences (sentence mode), or a num_words and num_sentences at
\* its default (word mode).
InitSnippet ==
  /\ text_in \in Texts
  /\ \/ num_words = None /\ num_sentences \in Counts
     \/ num_words \in Counts /\ num_sentences = <<1>>
  /\ snippet_out = <<>>
  /\ pc = "call" /\ idx = 0
  /\ pdf_files = <<>> /\ docs = <<>> /\ delete_dupes = FALSE
  /\ fs = {} /\ futures = <<>> /\ task_state = <<>> /\ task_result = <<>>
  /\ pdf_snippets = <<>> /\ requests = <<>>
  /\ duplicate_report = <<>> /\ lines = <<>>
  /\ log = {} /\ removed = {}

CallGetTextSnippet ==
  /\ pc = "call"
  /\ snippet_out' = get_text_snippet(text_in, num_sentences, num_words)
  /\ pc' = "returned"
  /\ UNCHANGED <<pdf_files, docs, num_sentences, num_words, delete_dupes, fs, futures,
                 task_state, task_result, pdf_snippets, idx, requests, duplicate_report,
                 lines, log, removed, text_in>>

NextSnippet == CallGetTextSnippet

SpecSnippet == InitSnippet /\ [][NextSnippet]_vars

\* ================================================================ claims
AllPaths == SeqRange(AllFiles)

\* Number of lines of the verdict the resolver has gone through.
Processed == IF pc = "resolve" THEN idx - 1 ELSE Len(lines)

KeySet == SeqRange(dict_keys(pdf_snippets))

File1Path(i) == ResolveName(Parsed(lines[i]).file1)
File2Path(i) == ResolveName(Parsed(lines[i]).file2)

\* Line i carries the marker and both names could be extracted from it.
ParsedLine(i) == HasMarker(lines[i]) /\ Parsed(lines[i]).ok

RemovedAt(i) == {r \in removed : r.line = i}
LoggedAt(i) == {r \in log : r.line = i}

\* ---- C1
\* C1: with delete_dupes false nothing is ever deleted: the set of existing
\* files stays the set the run started with, whatever the LLM answers.
C1_NoDeletionWhenDisabled ==
  ~delete_dupes => (fs = AllPaths /\ removed = {})

\* A finished run without deletion whose report names a pair the resolver
\* would have acted on.
C1_Witness ==
  /\ pc = "done" /\ ~delete_dupes /\ Len(requests) = 1
  /\ \E l \in SeqRange(SplitLines(duplicate_report)) :
       /\ HasMarker(l) /\ Parsed(l).ok
       /\ ResolveName(Parsed(l).file2) # None
       /\ ResolveName(Parsed(l).file2) \in fs

\* ---- C2
\* C2: with delete_dupes true, a parsed line one of whose two names does not
\* resolve to a key of the mapping deletes no file (the claim adds that an
\* error is logged for the line).
C2_UnresolvedPairDiscarded ==
  delete_dupes =>
    \A i \in 1..Processed :
      (ParsedLine(i) /\ (File1Path(i) = None \/ File2Path(i) = None))
        => RemovedAt(i) = {}

\* ---- C3
\* C3: with delete_dupes true, at the end of the run the first file of every
\* resolved pair still exists.
C3_FirstFileKept ==
  (pc = "done" /\ delete_dupes) =>
    \A i \in 1..Len(lines) :
      (ParsedLine(i) /\ File1Path(i) # None /\ File2Path(i) # None)
        => File1Path(i) \in fs

\* ---- C4
\* C4: every key of pdf_snippets maps to a non-empty snippet.
C4_SnippetsNonEmpty ==
  \A i \in 1..Len(pdf_snippets) : pdf_snippets[i][2] # <<>>

\* ---- C5
Succeeded(paths) == {f \in paths : str_endswith(f, PdfExt) /\ docs[f].ok}

\* C5: collection never raises, and the keys of the mapping are exactly the
\* documents whose extraction succeeded: during the loop those among the
\* futures already collected, afterwards those among all candidate files.
C5_KeysAreSucceeded ==
  /\ pc = "submit" => KeySet = {}
  /\ pc = "collect" => KeySet = Succeeded({futures[i] : i \in 1..(idx - 1)})
  /\ pc \in {"judge", "resolve", "done", "crashed"} => KeySet = Succeeded(SeqRange(pdf_files))
  /\ pc = "crashed" => Len(requests) = 1

\* Collection is over; a document that failed comes before one that
\* succeeded, and the second one finished first.
C5_Witness ==
  /\ pc = "judge"
  /\ Len(futures) >= 2
  /\ ~docs[futures[1]].ok /\ docs[futures[2]].ok
  /\ futures[2] \in KeySet /\ futures[1] \notin KeySet

\* ---- C6
\* C6: a run issues no LLM request when the mapping is empty after collection
\* (a warning is logged, nothing is deleted) and exactly one otherwise.
C6_RequestCount ==
  /\ Len(requests) <= 1
  /\ pc \in {"submit", "collect", "judge"} => Len(requests) = 0
  /\ pc \in {"resolve", "done", "crashed"} =>
       Len(requests) = IF pdf_snippets = <<>> THEN 0 ELSE 1
  /\ (pc = "done" /\ pdf_snippets = <<>>) =>
       /\ LogRec("warning", "no_snippets", <<>>, 0) \in log
       /\ fs = AllPaths /\ removed = {}

\* A finished run over several documents, with deletions, and one request.
C6_Witness ==
  /\ pc = "done" /\ Len(pdf_snippets) >= 2 /\ removed # {}
  /\ Len(requests) = 1 /\ Len(requests[1].entries) >= 2

\* ---- C7
\* Line i names a resolvable target which this line did not delete.
DeleteNoOp(i) == ParsedLine(i) /\ File2Path(i) # None /\ RemovedAt(i) = {}

\* C7: with delete_dupes true, every deletion that does not happen, because
\* of an OS error or because the target is already gone, leaves a log record
\* for its line.
C7_NoOpLogged ==
  delete_dupes => \A i \in 1..Processed : DeleteNoOp(i) => LoggedAt(i) # {}

\* ---- C8
\* re.split of the empty string yields one empty piece: no sentence.
SentencesOf(s) == IF s = <<>> THEN <<>> ELSE re_split_sentences(s)

LeadingItems(items, n) ==
  IF n >= 0 THEN SubSeq(items, 1, Min(n, Len(items)))
  ELSE SubSeq(items, 1, Max(Len(items) + n, 0))

\* C8 as stated, for a positive n: at most n leading words or sentences, and
\* an empty snippet only for an empty text.
C8_SnippetBounded ==
  pc = "returned" =>
    /\ (num_words # None /\ num_words[1] >= 1) =>
         /\ Len(re_findall_words(snippet_out)) <= num_words[1]
         /\ re_findall_words(snippet_out)
              = SubSeq(re_findall_words(text_in), 1, Len(re_findall_words(snippet_out)))
         /\ snippet_out = <<>> => text_in = <<>>
    /\ (num_words = None /\ num_sentences[1] >= 1) =>
         /\ Len(SentencesOf(snippet_out)) <= num_sentences[1]
         /\ SentencesOf(snippet_out)
              = SubSeq(SentencesOf(str_strip(text_in)), 1, Len(SentencesOf(snippet_out)))
         /\ snippet_out = <<>> => text_in = <<>>

\* C8 amended: for n >= 0 the snippet is made of the first min(n, count)
\* words or sentences of the text, in order (a negative n drops the last -n
\* instead); the snippet is empty exactly when no word or sentence is
\* selected, which includes a text without word characters and a blank text.
C8_SnippetLeading ==
  pc = "returned" =>
    /\ num_words # None =>
         LET words == re_findall_words(text_in)
         IN /\ re_findall_words(snippet_out) = LeadingItems(words, num_words[1])
            /\ num_words[1] >= 0 => Len(re_findall_words(snippet_out)) <= num_words[1]
            /\ snippet_out = <<>> <=> LeadingItems(words, num_words[1]) = <<>>
    /\ num_words = None =>
         LET sentences == SentencesOf(str_strip(text_in))
         IN /\ SentencesOf(snippet_out) = LeadingItems(sentences, num_sentences[1])
            /\ num_sentences[1] >= 0 => Len(SentencesOf(snippet_out)) <= num_sentences[1]
            /\ snippet_out = <<>> <=> LeadingItems(sentences, num_sentences[1]) = <<>>

\* A text of several words cut to its first word.
C8_Witness ==
  /\ pc = "returned" /\ num_words = <<1>>
  /\ Len(re_findall_words(text_in)) >= 2
  /\ Len(re_findall_words(snippet_out)) = 1

\* ---- C9
\* The substring of a segment between the first File ' marker and the next
\* quote; <<>> when the segment has no such substring.
QuotedName(segment) ==
  LET i == str_find(segment, FileQuote)
      rest == SubSeq(segment, i + Len(FileQuote), Len(segment))
      j == str_find(rest, Quote)
  IN IF i = 0 \/ j = 0 THEN <<>> ELSE SubSeq(rest, 1, j - 1)

\* C9: a file is deleted only for a line with the marker that splits on
\* " and " into exactly two segments, and only if its basename is the quoted
\* name of the second segment.
C9_NoDeletionOnMisparse ==
  \A r \in removed :
    LET parts == str_split(lines[r.line], AndSep)
    IN /\ IsCandidate(lines[r.line])
       /\ Len(parts) = 2
       /\ os_path_basename(r.path) = QuotedName(parts[2])

\* ---- C10
\* C10: the request and every deletion come after all extraction tasks have
\* finished; the request carries the complete mapping; every task contributes
\* at most one entry.
C10_JudgeAfterExtraction ==
  /\ (requests # <<>> \/ removed # {} \/ pc \in {"judge", "resolve", "done", "crashed"}) =>
       /\ Len(futures) = Cardinality({f \in SeqRange(pdf_files) : str_endswith(f, PdfExt)})
       /\ \A t \in 1..Len(futures) : task_state[t] = "done"
  /\ \A q \in 1..Len(requests) : requests[q] = BuildRequest(pdf_snippets)
  /\ \A t \in 1..Len(futures) :
       Cardinality({i \in 1..Len(pdf_snippets) : pdf_snippets[i][1] = futures[t]}) <= 1
  /\ Len(pdf_snippets) <= Cardinality({t \in 1..Len(futures) : task_state[t] = "done"})

\* Two tasks ran, the request was sent and a file was deleted.
C10_Witness ==
  /\ pc = "resolve" /\ Len(futures) >= 2 /\ idx > 1
  /\ Len(requests) = 1 /\ removed # {}

====
